---- MODULE Spec2Model ----
(***************************************************************************)
(* Round engine of pump-dump-server: GameManager (bot/services/           *)
(* game_manager.py) driving rounds over DatabaseService (bot/services/    *)
(* database.py), with concurrent place_bet calls.                         *)
(*                                                                         *)
(* Money is counted in hundredths of a SOL (MIN_BET 0.01 SOL = 1).  Bet   *)
(* amounts and pots are whole numbers of that unit; balances, payouts and *)
(* house profit are exact rationals <<numerator, denominator>>, since     *)
(* amount * winners_pool / winning_pot is not a whole number in general.  *)
(* Every await of a database statement is one step; a conn.transaction()  *)
(* block is one step (it commits as a whole or rolls back as a whole).    *)
(* The profile columns username / first_name / updated_at of a user row   *)
(* are not part of the model.                                              *)
(*                                                                         *)
(* A subscriber is a callback that returns, raises or never returns.  An  *)
(* awaited callback is a suspension point of the task that broadcasts; a  *)
(* broadcast to no subscriber has none.  Nothing in the repository calls  *)
(* GameManager.subscribe: Spec is the engine as it is deployed, without   *)
(* subscribers, and SpecHub the engine with subscribers.                  *)
(***************************************************************************)
EXTENDS Integers, Sequences, FiniteSets, TLC

\* ---------------------------------------------------------------- bounds
NumUsers == 2
NumCalls == 2
MaxRounds == 2
MaxFailures == 1
NumSubscribers == 2
NumLoops == 2
NumClients == 2
MaxCasts == 2
MaxResults == 12

\* ------------------------------------------------------ program constants
MIN_BET == 1
MAX_BET == 1000
BETTING_PHASE == 20
STARTING_BALANCE == 100
HOUSE_EDGE == <<1, 20>>
RECENT_RESULTS == 10

Users == 1..NumUsers
Calls == 1..NumCalls
Sides == {"PUMP", "DUMP"}
\* amounts a caller may send: below the minimum, a stake that fits a
\* starting balance once but not twice, a stake within the limits that
\* exceeds a starting balance, and above the maximum
Amounts == {MIN_BET - 1, 60, 150, MAX_BET + 1}
None == 0
\* what a subscribed callback does when it is awaited
Callbacks == {"returns", "raises", "hangs"}
\* the tasks that broadcast: the round loop and the place_bet calls
LoopTask == 0
\* the start_game_loop tasks: the first one and those of later requests
Loops == (LoopTask + 1 - NumLoops)..LoopTask
Tasks == Loops \cup Calls

VARIABLES users, rounds, bets, current_round, round_counter, is_running,
          loops, calls, failures,
          subscribers, received, published, pub, info, runs, ws, mem

hub == <<subscribers, received, published, pub>>

\* the task of the first start_game_loop call
loop == loops[LoopTask]

vars == <<users, rounds, bets, current_round, round_counter, is_running,
          loops, calls, failures, subscribers, received, published, pub,
          info, runs, ws, mem>>

\* ------------------------------------------------------- exact arithmetic
Abs(x) == IF x < 0 THEN -x ELSE x

RECURSIVE GCD(_, _)
GCD(a, b) == IF b = 0 THEN a ELSE GCD(b, a % b)

RNorm(n, d) == IF n = 0 THEN <<0, 1>>
               ELSE LET g == GCD(Abs(n), d) IN <<n \div g, d \div g>>
R(i) == <<i, 1>>
RAdd(x, y) == RNorm(x[1] * y[2] + y[1] * x[2], x[2] * y[2])
RSub(x, y) == RNorm(x[1] * y[2] - y[1] * x[2], x[2] * y[2])
RMul(x, y) == RNorm(x[1] * y[1], x[2] * y[2])
RDiv(x, y) == RNorm(x[1] * y[2], x[2] * y[1])
RLess(x, y) == x[1] * y[2] < y[1] * x[2]
RLeq(x, y) == x[1] * y[2] <= y[1] * x[2]
Zero == <<0, 1>>
Max(a, b) == IF a >= b THEN a ELSE b
Min(a, b) == IF a <= b THEN a ELSE b

\* ------------------------------------------------------------ table rows
NoUser == [exists |-> FALSE]

NewUser == [exists |-> TRUE, balance |-> R(STARTING_BALANCE),
            total_wagered |-> 0, total_won |-> Zero,
            games_played |-> 0, wins |-> 0, losses |-> 0]

NewRound(round_number) ==
    [round_number |-> round_number, status |-> "betting", expired |-> FALSE,
     total_pot |-> 0, pump_pot |-> 0, dump_pot |-> 0,
     participants_count |-> 0, result |-> "NONE", house_profit |-> Zero]

NewBet(user_id, round_id, bet_type, amount) ==
    [user_id |-> user_id, round_id |-> round_id, bet_type |-> bet_type,
     amount |-> amount, is_winner |-> FALSE, payout |-> Zero]

RoundIds == 1..Len(rounds)
BetIds == 1..Len(bets)

IdleCall == [pc |-> "idle", user |-> 1, side |-> "PUMP", amount |-> 0,
             rid |-> None, res |-> "none"]
IdleLoop == [pc |-> "idle", round_number |-> 0, round_id |-> None,
             stats |-> [total_pot |-> 0, pump_pot |-> 0, dump_pot |-> 0,
                        participants_count |-> 0],
             result |-> "NONE", house_profit |-> Zero, winner_count |-> 0]

\* a get_current_round_info call that has not been made: row and status
\* are the id and the status of the row db.get_current_round returned,
\* round_stats what db.get_round_stats returned, res the call's result
IdleInfo == [pc |-> "idle", row |-> None, status |-> "none",
             round_stats |-> [empty |-> TRUE], res |-> [absent |-> TRUE]]

\* a task that is not inside broadcast_update
NoPub == [n |-> 0, type |-> "none", idx |-> 0]

\* the amounts of the betting keyboard of main_with_websocket: 0.1 and 0.5
Stakes == {10, 50}

\* a user without an entry in current_round['bets']; debit is the position
\* in the ledger of the debit an entry was written with
NoStake == [type |-> "NONE", amount |-> 0, debit |-> 0]

\* a bet_callback invocation that has not been made; accepted is the number
\* of round starts there had been when its checks passed
IdleCallback == [pc |-> "idle", user |-> 1, type |-> "PUMP", amount |-> 0,
                 accepted |-> 0, res |-> "none"]

\* main_with_websocket before game_loop's first round: pc and round_number
\* are game_loop's position and local, number to dump_pot the dict
\* current_round, expired whether get_time_remaining() is 0, result, snap
\* (the bets the settlement read), winners, multiplier and todo (the users
\* whose UPDATE is still to run) the locals of the settlement, cb the
\* bet_callback invocations; starts counts the round starts, ledger lists
\* every debit made with the round start and status it was made under,
\* settled the debits a settlement has paid out or counted as a loss
IdleEngine ==
    [pc |-> "top", round_number |-> 1,
     number |-> 0, status |-> "waiting", expired |-> FALSE,
     bets |-> [u \in Users |-> NoStake],
     total_pot |-> 0, pump_pot |-> 0, dump_pot |-> 0,
     result |-> "NONE", snap |-> [u \in Users |-> NoStake],
     winners |-> {}, multiplier |-> Zero, todo |-> {},
     cb |-> [c \in Calls |-> IdleCallback],
     starts |-> 0, ledger |-> <<>>, settled |-> {}]

\* the websocket connections, each served by one handle_client task
Clients == 1..NumClients

\* GameWebSocketServer after __init__: clients is self.clients, handlers[k]
\* the handle_client task of connection k (joined and left: the number of
\* broadcasts made when it registered and unregistered), inbox[k] what was
\* sent on connection k, casts the broadcasts in flight with the
\* send_to_client tasks still to run, count the number of broadcasts made,
\* recentResults the list of game_state, results every result passed to
\* update_round_result so far
IdleSocket ==
    [clients |-> {},
     handlers |-> [k \in Clients |-> [pc |-> "none", joined |-> 0,
                                      left |-> 0]],
     inbox |-> [k \in Clients |-> <<>>],
     casts |-> {},
     count |-> 0,
     recentResults |-> <<>>,
     results |-> <<>>]

\* subscribers: the list self.subscribers; received[i]: the events the
\* callback at position i was called with, each with its number in the order
\* of the broadcast_update calls; published: the number of broadcast_update
\* calls so far; pub[t]: the event task t is broadcasting and the position
\* of the callback it awaits; info: the get_current_round_info call; runs:
\* determine_result calls on their own, with the random draws each one gets;
\* ws: the GameWebSocketServer with its connections; mem: the in-memory
\* engine of main_with_websocket with its bet_callback calls
Init ==
    /\ users = [u \in Users |-> NoUser]
    /\ rounds = <<>>
    /\ bets = <<>>
    /\ current_round = None
    /\ round_counter = 1
    /\ is_running = FALSE
    /\ loops = [l \in Loops |-> IdleLoop]
    /\ calls = [c \in Calls |-> IdleCall]
    /\ failures = 0
    /\ subscribers = <<>>
    /\ received = <<>>
    /\ published = 0
    /\ pub = [t \in Tasks |-> NoPub]
    /\ info = IdleInfo
    /\ runs = <<>>
    /\ ws = IdleSocket
    /\ mem = IdleEngine

\* ------------------------------------------------- DatabaseService (pure)
\* SELECT * FROM rounds WHERE status IN ('betting','revealing')
\* ORDER BY id DESC LIMIT 1; None when there is no such row
get_current_round(rs) ==
    LET open == {r \in 1..Len(rs) : rs[r].status \in {"betting", "revealing"}}
    IN IF open = {} THEN None
       ELSE CHOOSE r \in open : \A q \in open : q <= r

\* SELECT total_pot, pump_pot, dump_pot, participants_count FROM rounds
get_round_stats(rs, round_id) ==
    [total_pot |-> rs[round_id].total_pot, pump_pot |-> rs[round_id].pump_pot,
     dump_pot |-> rs[round_id].dump_pot,
     participants_count |-> rs[round_id].participants_count]

\* SELECT * FROM bets WHERE user_id = $1 AND round_id = $2: is there a row
get_user_round_bet(bs, user_id, round_id) ==
    \E b \in 1..Len(bs) : bs[b].user_id = user_id /\ bs[b].round_id = round_id

\* the bets table accepts a row only with an owning round, and only one row
\* per (user, round)
BetsConstraintViolated(bs, user_id, round_id) ==
    round_id = None \/ get_user_round_bet(bs, user_id, round_id)

\* mutant: the UPDATE has no WHERE clause
update_round_status_all_rows(rs, round_id, status) ==
    [r \in 1..Len(rs) |-> [rs[r] EXCEPT !.status = status]]

\* UPDATE rounds SET status = $1 WHERE id = $2
update_round_status(rs, round_id, status) ==
    [rs EXCEPT ![round_id].status = status]

\* the three statements of the place_bet transaction
place_bet_bets(bs, user_id, round_id, bet_type, amount) ==
    Append(bs, NewBet(user_id, round_id, bet_type, amount))

\* mutant: the UPDATE debits the balance but leaves total_wagered alone
place_bet_users_no_wagered(us, user_id, amount) ==
    [us EXCEPT ![user_id].balance = RSub(@, R(amount))]

place_bet_users(us, user_id, amount) ==
    [us EXCEPT ![user_id].balance = RSub(@, R(amount)),
               ![user_id].total_wagered = @ + amount]

\* mutant: the DUMP branch does not add the amount to total_pot
place_bet_rounds_dump_no_total(rs, round_id, bet_type, amount) ==
    IF bet_type = "PUMP"
    THEN [rs EXCEPT ![round_id].total_pot = @ + amount,
                    ![round_id].pump_pot = @ + amount,
                    ![round_id].participants_count = @ + 1]
    ELSE [rs EXCEPT ![round_id].dump_pot = @ + amount,
                    ![round_id].participants_count = @ + 1]

\* mutant: the UPDATE of the pots sets the round's status as well
place_bet_rounds_sets_status(rs, round_id, bet_type, amount) ==
    IF bet_type = "PUMP"
    THEN [rs EXCEPT ![round_id].total_pot = @ + amount,
                    ![round_id].pump_pot = @ + amount,
                    ![round_id].participants_count = @ + 1,
                    ![round_id].status = "betting"]
    ELSE [rs EXCEPT ![round_id].total_pot = @ + amount,
                    ![round_id].dump_pot = @ + amount,
                    ![round_id].participants_count = @ + 1,
                    ![round_id].status = "betting"]

place_bet_rounds(rs, round_id, bet_type, amount) ==
    IF bet_type = "PUMP"
    THEN [rs EXCEPT ![round_id].total_pot = @ + amount,
                    ![round_id].pump_pot = @ + amount,
                    ![round_id].participants_count = @ + 1]
    ELSE [rs EXCEPT ![round_id].total_pot = @ + amount,
                    ![round_id].dump_pot = @ + amount,
                    ![round_id].participants_count = @ + 1]

\* distribute_winnings: the multiplier, or Zero when nobody is paid
Multiplier(rs, round_id, result) ==
    LET total_pot == R(rs[round_id].total_pot)
        house_cut == RMul(total_pot, HOUSE_EDGE)
        winners_pool == RSub(total_pot, house_cut)
        winning_pot == IF result = "PUMP" THEN rs[round_id].pump_pot
                       ELSE rs[round_id].dump_pot
    IN IF winning_pot = 0 THEN Zero ELSE RDiv(winners_pool, R(winning_pot))

WinningPot(rs, round_id, result) ==
    IF result = "PUMP" THEN rs[round_id].pump_pot ELSE rs[round_id].dump_pot

\* UPDATE bets SET is_winner = TRUE, payout = amount * $1
\* WHERE round_id = $2 AND bet_type = $3
distribute_winnings_bets(bs, rs, round_id, result) ==
    IF WinningPot(rs, round_id, result) = 0 THEN bs
    ELSE [b \in 1..Len(bs) |->
            IF bs[b].round_id = round_id /\ bs[b].bet_type = result
            THEN [bs[b] EXCEPT !.is_winner = TRUE,
                     !.payout = RMul(R(bs[b].amount),
                                     Multiplier(rs, round_id, result))]
            ELSE bs[b]]

\* the bets row an UPDATE ... FROM bets b joins to a user: the first row of
\* the user in the round with its side among bet_types, None without one
JoinedBet(bs, user_id, round_id, bet_types) ==
    LET ids == {b \in 1..Len(bs) : /\ bs[b].user_id = user_id
                                    /\ bs[b].round_id = round_id
                                    /\ bs[b].bet_type \in bet_types}
    IN IF ids = {} THEN None ELSE CHOOSE b \in ids : \A q \in ids : b <= q

\* UPDATE users SET balance = balance + b.payout FROM bets b
\* WHERE users.id = b.user_id AND b.round_id = $1 AND b.bet_type = $2
distribute_winnings_users(us, bs, rs, round_id, result) ==
    IF WinningPot(rs, round_id, result) = 0 THEN us
    ELSE LET paid == distribute_winnings_bets(bs, rs, round_id, result)
             win(u) == JoinedBet(paid, u, round_id, {result})
         IN [u \in Users |->
               IF us[u].exists /\ win(u) # None
               THEN [us[u] EXCEPT !.balance = RAdd(@, paid[win(u)].payout)]
               ELSE us[u]]

\* result_rows: the number of bets rows the UPDATE touched
distribute_winnings_count(bs, rs, round_id, result) ==
    IF WinningPot(rs, round_id, result) = 0 THEN 0
    ELSE Cardinality({b \in 1..Len(bs) :
                        bs[b].round_id = round_id /\ bs[b].bet_type = result})

\* complete_round, first statement
complete_round_rounds(rs, round_id, result, house_profit) ==
    [rs EXCEPT ![round_id].status = "completed",
               ![round_id].result = result,
               ![round_id].house_profit = house_profit]

\* complete_round, second statement: statistics of the round's participants
complete_round_users(us, bs, round_id) ==
    LET played(u) == JoinedBet(bs, u, round_id, Sides)
    IN [u \in Users |->
          IF us[u].exists /\ played(u) # None
          THEN LET b == bs[played(u)]
               IN [us[u] EXCEPT
                     !.games_played = @ + 1,
                     !.wins = @ + (IF b.is_winner THEN 1 ELSE 0),
                     !.losses = @ + (IF ~b.is_winner THEN 1 ELSE 0),
                     !.total_won = RAdd(@, b.payout)]
          ELSE us[u]]

MaxRoundNumber(rs) ==
    IF Len(rs) = 0 THEN 0
    ELSE CHOOSE n \in {rs[r].round_number : r \in 1..Len(rs)} :
            \A r \in 1..Len(rs) : rs[r].round_number <= n

\* a persistence call may fail (connection lost, pool exhausted, timeout)
MayFail == failures < MaxFailures

\* db.pool: start_game_loop opens it on setting is_running, stop_game_loop
\* closes it on clearing is_running
PoolOpen == is_running

\* a persistence call raises: the call fails, or the pool is closed
Raises == MayFail \/ ~PoolOpen
Raised == IF PoolOpen THEN failures + 1 ELSE failures

\* ------------------------------------------- GameManager: the subscribers
\* subscribe: the callback is appended to the list
subscribe(callback) ==
    /\ Len(subscribers) < NumSubscribers
    /\ subscribers' = Append(subscribers, callback)
    /\ received' = Append(received, <<>>)
    /\ UNCHANGED <<users, rounds, bets, current_round, round_counter,
                   is_running, loops, calls, failures, published, pub>>
    /\ UNCHANGED <<info, runs, ws, mem>>

\* broadcast_update up to its first await: the first callback of the list
\* is called with the event; with an empty list the call returns at once
broadcast_update(t, type) ==
    /\ published' = published + 1
    /\ IF subscribers = <<>>
       THEN UNCHANGED <<pub, received>>
       ELSE /\ pub' = [pub EXCEPT ![t] = [n |-> published + 1,
                                          type |-> type, idx |-> 1]]
            /\ received' = [received EXCEPT
                               ![1] = Append(@, <<published + 1, type>>)]
    /\ UNCHANGED subscribers

\* mutant: no try/except around the await, a raising callback ends the
\* broadcast
broadcast_update_next_uncaught(t) ==
    /\ pub[t].idx # 0
    /\ subscribers[pub[t].idx] # "hangs"
    /\ IF pub[t].idx < Len(subscribers)
          /\ subscribers[pub[t].idx] # "raises"
       THEN /\ pub' = [pub EXCEPT ![t].idx = @ + 1]
            /\ received' = [received EXCEPT ![pub[t].idx + 1] =
                               Append(@, <<pub[t].n, pub[t].type>>)]
       ELSE /\ pub' = [pub EXCEPT ![t] = NoPub]
            /\ UNCHANGED received
    /\ UNCHANGED <<subscribers, published>>

\* broadcast_update, one turn of its for loop: the awaited callback returns,
\* or raises and the except clause logs it; the next callback of the list,
\* if there is one by now, is called with the event
broadcast_update_next(t) ==
    /\ pub[t].idx # 0
    /\ subscribers[pub[t].idx] # "hangs"
    /\ IF pub[t].idx < Len(subscribers)
       THEN /\ pub' = [pub EXCEPT ![t].idx = @ + 1]
            /\ received' = [received EXCEPT ![pub[t].idx + 1] =
                               Append(@, <<pub[t].n, pub[t].type>>)]
       ELSE /\ pub' = [pub EXCEPT ![t] = NoPub]
            /\ UNCHANGED received
    /\ UNCHANGED <<subscribers, published>>

\* ------------------------------------------------- GameManager: the loop
\* mutant: the exception is not caught and ends the task
except_nothing(l) == [loops EXCEPT ![l].pc = "crashed"]

\* start_game_loop, lines 59-61: an exception of run_round is caught and
\* logged; after the pause the task is at the while test again
except_Exception(l) == [loops EXCEPT ![l].pc = "top"]


\* start_game_loop up to the first pass through `while self.is_running`
start_game_loop(l) ==
    /\ loops[l].pc = "idle"
    /\ IF is_running
       THEN /\ loops' = [loops EXCEPT ![l].pc = "returned"]
            /\ UNCHANGED <<is_running, round_counter>>
       ELSE /\ is_running' = TRUE
            /\ round_counter' = MaxRoundNumber(rounds) + 1
            /\ loops' = [loops EXCEPT ![l].pc = "top"]
    /\ UNCHANGED <<users, rounds, bets, current_round, calls, failures>>
    /\ UNCHANGED hub
    /\ UNCHANGED <<info, runs, ws, mem>>

\* run_round, lines 72-85: take the round number, create the round,
\* broadcast round_started
run_round_create(l) ==
    /\ loops[l].pc = "top"
    /\ is_running
    /\ round_counter <= MaxRounds
    /\ round_counter' = round_counter + 1
    /\ \/ /\ PoolOpen
          /\ rounds' = Append(rounds, NewRound(round_counter))
          /\ current_round' = Len(rounds) + 1
          /\ loops' = [loops EXCEPT ![l].pc = IF subscribers = <<>>
                                         THEN "betting"
                                         ELSE "round_started",
                                  ![l].round_number = round_counter,
                                  ![l].round_id = Len(rounds) + 1]
          /\ broadcast_update(l, "round_started")
          /\ UNCHANGED failures
       \/ /\ Raises
          /\ failures' = Raised
          /\ loops' = [loops EXCEPT ![l].round_number = round_counter]
          /\ UNCHANGED <<rounds, current_round>>
          /\ UNCHANGED hub
    /\ UNCHANGED <<users, bets, is_running, calls>>
    /\ UNCHANGED <<info, runs, ws, mem>>

\* the clock reaches betting_ends_at, BETTING_PHASE after create_round:
\* the loop is still broadcasting round_started or sleeps BETTING_PHASE
betting_deadline(l) ==
    /\ loops[l].pc \in {"round_started", "betting"}
    /\ ~rounds[loops[l].round_id].expired
    /\ rounds' = [rounds EXCEPT ![loops[l].round_id].expired = TRUE]
    /\ UNCHANGED <<users, bets, current_round, round_counter, is_running,
                   loops, calls, failures>>
    /\ UNCHANGED hub
    /\ UNCHANGED <<info, runs, ws, mem>>

\* run_round, line 91: the sleep is over, close betting
run_round_close(l) ==
    /\ loops[l].pc = "betting"
    /\ rounds[loops[l].round_id].expired
    /\ \/ /\ PoolOpen
          /\ rounds' = update_round_status(rounds, loops[l].round_id,
                                           "revealing")
          /\ loops' = [loops EXCEPT ![l].pc = "stats"]
          /\ UNCHANGED failures
       \/ /\ Raises
          /\ failures' = Raised
          /\ loops' = except_Exception(l)
          /\ UNCHANGED rounds
    /\ UNCHANGED <<users, bets, current_round, round_counter, is_running,
                   calls>>
    /\ UNCHANGED hub
    /\ UNCHANGED <<info, runs, ws, mem>>

\* run_round, lines 94-101: the final stats, broadcast betting_closed
run_round_stats(l) ==
    /\ loops[l].pc = "stats"
    /\ \/ /\ PoolOpen
          /\ loops' = [loops EXCEPT ![l].pc = IF subscribers = <<>>
                                         THEN "reveal"
                                         ELSE "betting_closed",
                         ![l].stats = get_round_stats(rounds,
                                                      loops[l].round_id)]
          /\ broadcast_update(l, "betting_closed")
          /\ UNCHANGED failures
       \/ /\ Raises
          /\ failures' = Raised
          /\ loops' = except_Exception(l)
          /\ UNCHANGED hub
    /\ UNCHANGED <<users, rounds, bets, current_round, round_counter,
                   is_running, calls>>
    /\ UNCHANGED <<info, runs, ws, mem>>

\* ------------------------------------------- GameManager.determine_result
\* probabilities and random numbers are counted in thousandths
\* random.uniform(-0.05, 0.05)
Jitters == {-50, -30, 0, 30, 50}
\* random.random(), a number of [0, 1)
Samples == {0, 399, 400, 450, 499, 500, 550, 599, 600, 999}
\* the random draws of one call: random.choice, random.uniform,
\* random.random
Draws == [choice : Sides, jitter : Jitters, sample : Samples]

\* lines 152-153: what each side would pay out
pump_payout(stats) ==
    IF stats.dump_pot > 0
    THEN RMul(R(stats.dump_pot), RSub(R(1), HOUSE_EDGE)) ELSE Zero

dump_payout(stats) ==
    IF stats.pump_pot > 0
    THEN RMul(R(stats.pump_pot), RSub(R(1), HOUSE_EDGE)) ELSE Zero

\* mutant: tilted to the side that pays out more
base_probability_reversed(stats) ==
    IF RLess(pump_payout(stats), dump_payout(stats)) THEN 480
    ELSE IF RLess(dump_payout(stats), pump_payout(stats)) THEN 520
    ELSE 500

\* lines 156-163: 50/50, tilted to the side that pays out less
base_probability(stats) ==
    IF RLess(pump_payout(stats), dump_payout(stats)) THEN 520
    ELSE IF RLess(dump_payout(stats), pump_payout(stats)) THEN 480
    ELSE 500

\* mutant: the jitter is drawn but not added
pump_probability_no_jitter(stats, jitter) ==
    Max(400, Min(600, base_probability(stats)))

\* lines 166-167: the jitter, then the clamp
pump_probability(stats, jitter) ==
    Max(400, Min(600, base_probability(stats) + jitter))

\* mutant: with more than one participant PUMP is favoured
determine_result_by_participants(stats, draws) ==
    IF stats.total_pot = 0 THEN draws.choice
    ELSE IF stats.participants_count > 1 THEN "PUMP"
    ELSE IF draws.sample < pump_probability(stats, draws.jitter) THEN "PUMP"
    ELSE "DUMP"

\* determine_result: the side, from the round's stats and the random draws
determine_result(stats, draws) ==
    IF stats.total_pot = 0 THEN draws.choice
    ELSE IF draws.sample < pump_probability(stats, draws.jitter) THEN "PUMP"
    ELSE "DUMP"

\* a determine_result call on its own
determine_result_call(k) ==
    /\ runs[k].pc = "call"
    /\ runs' = [runs EXCEPT
          ![k].pc = "done",
          ![k].probability = pump_probability(runs[k].stats,
                                              runs[k].draws.jitter),
          ![k].result = determine_result(runs[k].stats, runs[k].draws)]
    /\ UNCHANGED <<users, rounds, bets, current_round, round_counter,
                   is_running, loops, calls, failures>>
    /\ UNCHANGED <<hub, info, ws, mem>>

\* run_round, lines 107-111: result, house profit, distribute_winnings
run_round_distribute(l) ==
    /\ loops[l].pc = "reveal"
    /\ \E result \in {determine_result(loops[l].stats, draws) :
                       draws \in Draws} :
         \/ /\ PoolOpen
            /\ bets' = distribute_winnings_bets(bets, rounds,
                                                loops[l].round_id, result)
            /\ users' = distribute_winnings_users(users, bets, rounds,
                                                  loops[l].round_id, result)
            /\ loops' = [loops EXCEPT
                  ![l].pc = "complete",
                  ![l].result = result,
                  ![l].house_profit = RMul(R(loops[l].stats.total_pot),
                                         HOUSE_EDGE),
                  ![l].winner_count = distribute_winnings_count(
                                      bets, rounds, loops[l].round_id, result)]
            /\ UNCHANGED failures
         \/ /\ Raises
            /\ failures' = Raised
            /\ loops' = except_Exception(l)
            /\ UNCHANGED <<users, bets>>
    /\ UNCHANGED <<rounds, current_round, round_counter, is_running, calls>>
    /\ UNCHANGED hub
    /\ UNCHANGED <<info, runs, ws, mem>>

\* run_round, lines 114-137: complete_round, broadcast round_completed;
\* with no subscriber the broadcast has no await and the round is over
run_round_complete(l) ==
    /\ loops[l].pc = "complete"
    /\ \/ /\ PoolOpen
          /\ rounds' = complete_round_rounds(rounds, loops[l].round_id,
                                             loops[l].result, loops[l].house_profit)
          /\ users' = complete_round_users(users, bets, loops[l].round_id)
          /\ broadcast_update(l, "round_completed")
          /\ IF subscribers = <<>>
             THEN /\ current_round' = None
                  /\ loops' = [loops EXCEPT ![l].pc = "top"]
             ELSE /\ loops' = [loops EXCEPT ![l].pc = "round_completed"]
                  /\ UNCHANGED current_round
          /\ UNCHANGED failures
       \/ /\ Raises
          /\ failures' = Raised
          /\ loops' = except_Exception(l)
          /\ UNCHANGED <<users, rounds, current_round>>
          /\ UNCHANGED hub
    /\ UNCHANGED <<bets, round_counter, is_running, calls>>
    /\ UNCHANGED <<info, runs, ws, mem>>

\* run_round inside one of its three broadcasts: a callback returns or
\* raises; after the last one the loop goes on to its sleep, and after
\* round_completed the round is over (line 137)
run_round_broadcast(l) ==
    /\ loops[l].pc \in {"round_started", "betting_closed", "round_completed"}
    /\ broadcast_update_next(l)
    /\ IF pub[l].idx < Len(subscribers)
       THEN UNCHANGED <<loops, current_round>>
       ELSE /\ loops' = [loops EXCEPT ![l].pc =
                          CASE loops[l].pc = "round_started" -> "betting"
                            [] loops[l].pc = "betting_closed" -> "reveal"
                            [] OTHER -> "top"]
            /\ current_round' = IF loops[l].pc = "round_completed" THEN None
                                ELSE current_round
    /\ UNCHANGED <<users, rounds, bets, round_counter, is_running, calls,
                   failures>>
    /\ UNCHANGED <<info, runs, ws, mem>>

\* start_game_loop, line 54: is_running is false at the while test, the
\* task ends
start_game_loop_return(l) ==
    /\ loops[l].pc = "top"
    /\ ~is_running
    /\ loops' = [loops EXCEPT ![l].pc = "exited"]
    /\ UNCHANGED <<users, rounds, bets, current_round, round_counter,
                   is_running, calls, failures>>
    /\ UNCHANGED hub
    /\ UNCHANGED <<info, runs, ws, mem>>

\* stop_game_loop: is_running is cleared and the pool starts closing before
\* the first suspension; a statement or transaction in flight is a step of
\* its own and has ended. With the loop not running nothing changes.
stop_game_loop ==
    /\ is_running
    /\ is_running' = FALSE
    /\ UNCHANGED <<users, rounds, bets, current_round, round_counter, loops,
                   calls, failures>>
    /\ UNCHANGED hub
    /\ UNCHANGED <<info, runs, ws, mem>>

\* --------------------------------------------- GameManager.place_bet calls
\* the call returns (or raises): its locals are gone, its outcome is kept
Done(c, res) ==
    calls' = [calls EXCEPT ![c] = [IdleCall EXCEPT !.pc = "done", !.res = res]]

\* place_bet is called; can_place_bet line 177 runs before the first await
place_bet_call(c) ==
    /\ calls[c].pc = "idle"
    /\ \E u \in Users, side \in Sides, amount \in Amounts :
         LET args == [calls[c] EXCEPT !.user = u, !.side = side,
                                      !.amount = amount]
         IN IF current_round = None
            THEN Done(c, "NoRound")
            ELSE calls' = [calls EXCEPT ![c] =
                             [args EXCEPT !.pc = "get_current_round"]]
    /\ UNCHANGED <<users, rounds, bets, current_round, round_counter,
                   is_running, loops, failures>>
    /\ UNCHANGED hub
    /\ UNCHANGED <<info, runs, ws, mem>>

\* mutant: the minimum is not checked
AmountLimits_no_minimum(amount) ==
    IF amount > MAX_BET THEN "Max" ELSE "ok"

\* can_place_bet lines 184-189: the bet amount limits
AmountLimits(amount) ==
    IF amount < MIN_BET THEN "Min"
    ELSE IF amount > MAX_BET THEN "Max"
    ELSE "ok"

\* can_place_bet lines 180-189: the round's status, then the amount limits
can_place_bet_round(c) ==
    /\ calls[c].pc = "get_current_round"
    /\ LET cur == get_current_round(rounds)
       IN IF ~PoolOpen
          THEN Done(c, "PoolClosed")
          ELSE IF cur = None \/ rounds[cur].status # "betting"
          THEN Done(c, "Closed")
          ELSE IF AmountLimits(calls[c].amount) # "ok"
               THEN Done(c, AmountLimits(calls[c].amount))
               ELSE calls' = [calls EXCEPT ![c].pc = "get_user"]
    /\ UNCHANGED <<users, rounds, bets, current_round, round_counter,
                   is_running, loops, failures>>
    /\ UNCHANGED hub
    /\ UNCHANGED <<info, runs, ws, mem>>

\* can_place_bet line 193: the balance check on the row get_or_create_user
\* returned; line 197 then reads self.current_round for the duplicate query
BalanceCheck(c, row) ==
    IF RLess(row.balance, R(calls[c].amount))
    THEN Done(c, "Balance")
    ELSE calls' = [calls EXCEPT ![c].pc = "get_bet", ![c].rid = current_round]

\* get_or_create_user, the SELECT (line 38): the row is there, or not yet
can_place_bet_user(c) ==
    /\ calls[c].pc = "get_user"
    /\ IF ~PoolOpen
       THEN Done(c, "PoolClosed")
       ELSE IF users[calls[c].user].exists
       THEN BalanceCheck(c, users[calls[c].user])
       ELSE calls' = [calls EXCEPT ![c].pc = "insert_user"]
    /\ UNCHANGED <<users, rounds, bets, current_round, round_counter,
                   is_running, loops, failures>>
    /\ UNCHANGED hub
    /\ UNCHANGED <<info, runs, ws, mem>>

\* the users table holds one row per telegram_id
UsersConstraintViolated(us, telegram_id) == us[telegram_id].exists

\* mutant: the INSERT is an upsert that overwrites the row it conflicts with
can_place_bet_upsert_user(c) ==
    /\ calls[c].pc = "insert_user"
    /\ IF ~PoolOpen
       THEN /\ Done(c, "PoolClosed")
            /\ UNCHANGED users
       ELSE /\ users' = [users EXCEPT ![calls[c].user] = NewUser]
            /\ BalanceCheck(c, NewUser)
    /\ UNCHANGED <<rounds, bets, current_round, round_counter, is_running,
                   loops, failures>>
    /\ UNCHANGED hub
    /\ UNCHANGED <<info, runs, ws, mem>>

\* get_or_create_user, the INSERT (line 53): it raises when another call
\* created the row since the SELECT, else the new row is returned
can_place_bet_insert_user(c) ==
    /\ calls[c].pc = "insert_user"
    /\ IF ~PoolOpen
       THEN /\ Done(c, "PoolClosed")
            /\ UNCHANGED users
       ELSE IF UsersConstraintViolated(users, calls[c].user)
       THEN /\ Done(c, "UserUniqueViolation")
            /\ UNCHANGED users
       ELSE /\ users' = [users EXCEPT ![calls[c].user] = NewUser]
            /\ BalanceCheck(c, NewUser)
    /\ UNCHANGED <<rounds, bets, current_round, round_counter, is_running,
                   loops, failures>>
    /\ UNCHANGED hub
    /\ UNCHANGED <<info, runs, ws, mem>>

\* can_place_bet lines 197-201: has the user a bet in the round read above
can_place_bet_existing(c) ==
    /\ calls[c].pc = "get_bet"
    /\ IF ~PoolOpen
       THEN Done(c, "PoolClosed")
       ELSE IF get_user_round_bet(bets, calls[c].user, calls[c].rid)
       THEN Done(c, "AlreadyBet")
       ELSE calls' = [calls EXCEPT ![c].pc = "get_user_again"]
    /\ UNCHANGED <<users, rounds, bets, current_round, round_counter,
                   is_running, loops, failures>>
    /\ UNCHANGED hub
    /\ UNCHANGED <<info, runs, ws, mem>>

\* place_bet line 211: the user again; line 214 then reads
\* self.current_round for db.place_bet
place_bet_user(c) ==
    /\ calls[c].pc = "get_user_again"
    /\ users[calls[c].user].exists
    /\ IF ~PoolOpen
       THEN Done(c, "PoolClosed")
       ELSE calls' = [calls EXCEPT ![c].pc = "transaction",
                                   ![c].rid = current_round]
    /\ UNCHANGED <<users, rounds, bets, current_round, round_counter,
                   is_running, loops, failures>>
    /\ UNCHANGED hub
    /\ UNCHANGED <<info, runs, ws, mem>>

\* db.place_bet: the transaction commits, or raises and rolls back
place_bet_transaction(c) ==
    /\ calls[c].pc = "transaction"
    /\ LET u == calls[c].user
           rid == calls[c].rid
       IN \/ /\ ~PoolOpen
             /\ Done(c, "PoolClosed")
             /\ UNCHANGED <<users, rounds, bets, failures>>
          \/ /\ PoolOpen
             /\ BetsConstraintViolated(bets, u, rid)
             /\ Done(c, IF rid = None THEN "NoRoundKey"
                        ELSE "BetUniqueViolation")
             /\ UNCHANGED <<users, rounds, bets, failures>>
          \/ /\ PoolOpen
             /\ ~BetsConstraintViolated(bets, u, rid)
             /\ bets' = place_bet_bets(bets, u, rid, calls[c].side,
                                       calls[c].amount)
             /\ users' = place_bet_users(users, u, calls[c].amount)
             /\ rounds' = place_bet_rounds(rounds, rid, calls[c].side,
                                           calls[c].amount)
             /\ calls' = [calls EXCEPT ![c].pc = "get_round_stats",
                                       ![c].rid = current_round]
             /\ UNCHANGED failures
          \/ /\ PoolOpen
             /\ MayFail
             /\ failures' = failures + 1
             /\ Done(c, "PersistenceError")
             /\ UNCHANGED <<users, rounds, bets>>
    /\ UNCHANGED <<current_round, round_counter, is_running, loops>>
    /\ UNCHANGED hub
    /\ UNCHANGED <<info, runs, ws, mem>>

\* place_bet lines 216-227: the round's stats, broadcast bet_placed; with
\* no subscriber the broadcast has no await and the call returns success
place_bet_stats(c) ==
    /\ calls[c].pc = "get_round_stats"
    /\ IF ~PoolOpen
       THEN /\ Done(c, "PoolClosed")
            /\ UNCHANGED hub
       ELSE /\ broadcast_update(c, "bet_placed")
            /\ IF subscribers = <<>>
               THEN Done(c, "ok")
               ELSE calls' = [calls EXCEPT ![c] =
                                [IdleCall EXCEPT !.pc = "bet_placed"]]
    /\ UNCHANGED <<users, rounds, bets, current_round, round_counter,
                   is_running, loops, failures>>
    /\ UNCHANGED <<info, runs, ws, mem>>

\* place_bet inside its broadcast: a callback returns or raises; after the
\* last one the call returns success (line 227)
place_bet_broadcast(c) ==
    /\ calls[c].pc = "bet_placed"
    /\ broadcast_update_next(c)
    /\ IF pub[c].idx < Len(subscribers)
       THEN UNCHANGED calls
       ELSE Done(c, "ok")
    /\ UNCHANGED <<users, rounds, bets, current_round, round_counter,
                   is_running, loops, failures>>
    /\ UNCHANGED <<info, runs, ws, mem>>

Next ==
    \/ start_game_loop(LoopTask)
    \/ run_round_create(LoopTask)
    \/ betting_deadline(LoopTask)
    \/ run_round_close(LoopTask)
    \/ run_round_stats(LoopTask)
    \/ run_round_distribute(LoopTask)
    \/ run_round_complete(LoopTask)
    \/ \E c \in Calls : place_bet_call(c)
    \/ \E c \in Calls : can_place_bet_round(c)
    \/ \E c \in Calls : can_place_bet_user(c)
    \/ \E c \in Calls : can_place_bet_insert_user(c)
    \/ \E c \in Calls : can_place_bet_existing(c)
    \/ \E c \in Calls : place_bet_user(c)
    \/ \E c \in Calls : place_bet_transaction(c)
    \/ \E c \in Calls : place_bet_stats(c)

Spec == Init /\ [][Next]_vars

\* ------------------------------------ GameManager.get_current_round_info
\* a query runs on the database when it is sent; the task that awaits it
\* resumes in a later step, and other tasks may run in between

\* line 233, and the query of db.get_current_round
get_current_round_info_call ==
    /\ info.pc = "idle"
    /\ IF current_round = None
       THEN info' = [info EXCEPT !.pc = "done", !.res = [absent |-> TRUE]]
       ELSE LET cur == get_current_round(rounds)
            IN info' = [info EXCEPT
                  !.pc = "get_current_round",
                  !.row = cur,
                  !.status = IF cur = None THEN "none"
                             ELSE rounds[cur].status]
    /\ UNCHANGED <<users, rounds, bets, current_round, round_counter,
                   is_running, loops, calls, failures>>
    /\ UNCHANGED hub
    /\ UNCHANGED <<runs, ws, mem>>

\* db.get_round_stats: no row has id NULL, the result is then empty;
\* stats_of is the round id the statistics were read for
RoundStatsOf(rs, round_id) ==
    IF round_id = None THEN [empty |-> TRUE]
    ELSE [empty |-> FALSE, stats_of |-> round_id,
          stats |-> get_round_stats(rs, round_id)]

\* lines 236-240: the row is back; the query of
\* db.get_round_stats(self.current_round)
get_current_round_info_round ==
    /\ info.pc = "get_current_round"
    /\ IF info.row = None
       THEN info' = [IdleInfo EXCEPT !.pc = "done"]
       ELSE info' = [info EXCEPT
                       !.pc = "get_round_stats",
                       !.round_stats = RoundStatsOf(rounds, current_round)]
    /\ UNCHANGED <<users, rounds, bets, current_round, round_counter,
                   is_running, loops, calls, failures>>
    /\ UNCHANGED hub
    /\ UNCHANGED <<runs, ws, mem>>

\* betting_ends_at - now in whole seconds, as int() cuts it: not negative
\* before the deadline, not positive after it
SecondsLeft(expired) ==
    IF expired THEN {-BETTING_PHASE, -1, 0} ELSE {0, 1, BETTING_PHASE}

\* lines 242-254: the statistics are back; time_remaining and the result
get_current_round_info_stats ==
    /\ info.pc = "get_round_stats"
    /\ \E seconds \in SecondsLeft(rounds[info.row].expired) :
         info' = [IdleInfo EXCEPT
            !.pc = "done",
            !.res = [absent |-> FALSE,
                     round_number |-> rounds[info.row].round_number,
                     round_id |-> info.row,
                     status |-> info.status,
                     time_remaining |-> IF info.status = "betting"
                                        THEN Max(0, seconds) ELSE 0,
                     round_stats |-> info.round_stats]]
    /\ UNCHANGED <<users, rounds, bets, current_round, round_counter,
                   is_running, loops, calls, failures>>
    /\ UNCHANGED hub
    /\ UNCHANGED <<runs, ws, mem>>

\* the engine with a get_current_round_info call next to the loop and one
\* place_bet call, without subscribers or persistence failures
InitInfo ==
    /\ users = [u \in Users |-> NoUser]
    /\ rounds = <<>>
    /\ bets = <<>>
    /\ current_round = None
    /\ round_counter = 1
    /\ is_running = FALSE
    /\ loops = [l \in Loops |-> IdleLoop]
    /\ calls = [c \in Calls |->
                  IF c = 1 THEN IdleCall
                  ELSE [IdleCall EXCEPT !.pc = "done", !.res = "NoRound"]]
    /\ failures = MaxFailures
    /\ subscribers = <<>>
    /\ received = <<>>
    /\ published = 0
    /\ pub = [t \in Tasks |-> NoPub]
    /\ info = IdleInfo
    /\ runs = <<>>
    /\ ws = IdleSocket
    /\ mem = IdleEngine

NextInfo ==
    \/ Next
    \/ get_current_round_info_call
    \/ get_current_round_info_round
    \/ get_current_round_info_stats

SpecInfo == InitInfo /\ [][NextInfo]_vars

\* --------------------------------------------------- GameWebSocketServer
\* the variables of the engines the server does not touch
engine == <<users, rounds, bets, current_round, round_counter, is_running,
            loops, calls, failures>>

\* mutant: one of the clients is left out of the copy
copy_but_one(clients) ==
    IF clients = {} THEN {} ELSE clients \ {CHOOSE k \in clients : TRUE}

\* self.clients.copy()
copy(clients) == clients

\* broadcast up to its await: one send_to_client task per client of the
\* copy; without clients nothing is awaited
broadcast(w, type) ==
    [w EXCEPT !.count = @ + 1,
              !.casts = IF w.clients = {} THEN @
                        ELSE @ \cup {[n |-> w.count + 1, type |-> type,
                                      pending |-> copy(w.clients)]}]

\* handle_client, register_client: the connection joins self.clients and
\* is sent the game state
register_client(k) ==
    /\ ws.handlers[k].pc = "none"
    /\ ws' = [ws EXCEPT !.clients = @ \cup {k},
                        !.handlers[k].pc = "open",
                        !.handlers[k].joined = ws.count,
                        !.inbox[k] = Append(@, <<0, "game_state">>)]
    /\ UNCHANGED <<engine, hub, info, runs, mem>>

\* handle_client: the connection is closed, `async for message` ends
connection_closed(k) ==
    /\ ws.handlers[k].pc = "open"
    /\ ws' = [ws EXCEPT !.handlers[k].pc = "closing"]
    /\ UNCHANGED <<engine, hub, info, runs, mem>>

\* handle_client, finally: unregister_client discards the connection
unregister_client(k) ==
    /\ ws.handlers[k].pc = "closing"
    /\ ws' = [ws EXCEPT !.clients = @ \ {k},
                        !.handlers[k].pc = "done",
                        !.handlers[k].left = ws.count]
    /\ UNCHANGED <<engine, hub, info, runs, mem>>

\* one send_to_client task of a broadcast: websocket.send, or
\* ConnectionClosed, which is swallowed; after the last one gather returns
send_to_client(b, k) ==
    /\ b \in ws.casts
    /\ k \in b.pending
    /\ LET rest == [b EXCEPT !.pending = @ \ {k}]
       IN ws' = [ws EXCEPT
                   !.inbox[k] = IF ws.handlers[k].pc = "open"
                                THEN Append(@, <<b.n, b.type>>) ELSE @,
                   !.casts = IF rest.pending = {} THEN @ \ {b}
                             ELSE (@ \ {b}) \cup {rest}]
    /\ UNCHANGED <<engine, hub, info, runs, mem>>

\* update_timer: a timer_update event is broadcast
update_timer ==
    /\ ws.count < MaxCasts
    /\ ws' = broadcast(ws, "timer_update")
    /\ UNCHANGED <<engine, hub, info, runs, mem>>

\* mutant: the list is not cut
insert_result_keep_all(recentResults, entry) == <<entry>> \o recentResults

\* update_round_result, lines 150-158: the entry goes to the front of
\* recentResults, which is cut to its first 10 entries
insert_result(recentResults, entry) ==
    LET inserted == <<entry>> \o recentResults
    IN IF Len(inserted) > RECENT_RESULTS
       THEN SubSeq(inserted, 1, RECENT_RESULTS)
       ELSE inserted

\* update_round_result as a whole: game_state, then the broadcast
round_result(w, round_number, result) ==
    LET entry == [round |-> round_number, result |-> result]
    IN broadcast([w EXCEPT
                    !.recentResults = insert_result(@, entry),
                    !.results = Append(@, entry)],
                 "round_result")

\* update_round_result, called with the next round's result
update_round_result ==
    /\ Len(ws.results) < MaxResults
    /\ \E result \in Sides :
         ws' = round_result(ws, Len(ws.results) + 1, result)
    /\ UNCHANGED <<engine, hub, info, runs, mem>>

\* the server with its connections and timer broadcasts
InitSocket ==
    /\ users = [u \in Users |-> NoUser]
    /\ rounds = <<>>
    /\ bets = <<>>
    /\ current_round = None
    /\ round_counter = 1
    /\ is_running = FALSE
    /\ loops = [l \in Loops |-> IdleLoop]
    /\ calls = [c \in Calls |-> IdleCall]
    /\ failures = 0
    /\ subscribers = <<>>
    /\ received = <<>>
    /\ published = 0
    /\ pub = [t \in Tasks |-> NoPub]
    /\ info = IdleInfo
    /\ runs = <<>>
    /\ ws = IdleSocket
    /\ mem = IdleEngine

NextSocket ==
    \/ \E k \in Clients : register_client(k)
    \/ \E k \in Clients : connection_closed(k)
    \/ \E k \in Clients : unregister_client(k)
    \/ update_timer
    \/ \E b \in ws.casts : \E k \in Clients : send_to_client(b, k)

SpecSocket == InitSocket /\ [][NextSocket]_vars

\* the server's result list alone: no connection, one result after another
SpecRecent == InitSocket /\ [][update_round_result]_vars

\* ------------------------------------- main_with_websocket: bet_callback
\* the variables of the GameManager engine other than the users table
manager == <<rounds, bets, current_round, round_counter, is_running, loops,
             calls, failures>>

\* the users with an entry in a bets dict
Bettors(stakes) == {u \in Users : stakes[u] # NoStake}

RECURSIVE SumStakes(_, _)
SumStakes(stakes, us) ==
    IF us = {} THEN 0
    ELSE LET u == CHOOSE x \in us : TRUE
         IN stakes[u].amount + SumStakes(stakes, us \ {u})

CallbackDone(c, res) ==
    mem' = [mem EXCEPT !.cb[c].pc = "done", !.cb[c].res = res]

\* bet_callback up to its first await: the three checks on current_round
bet_callback(c, u, type, amount) ==
    /\ mem.cb[c].pc = "idle"
    /\ IF mem.status # "betting" THEN CallbackDone(c, "closed")
       ELSE IF mem.expired THEN CallbackDone(c, "time_up")
       ELSE IF mem.bets[u] # NoStake THEN CallbackDone(c, "already_bet")
       ELSE mem' = [mem EXCEPT !.cb[c] = [pc |-> "get_or_create_user",
                                          user |-> u, type |-> type,
                                          amount |-> amount,
                                          accepted |-> mem.starts,
                                          res |-> "none"]]
    /\ UNCHANGED <<users, manager, hub, info, runs, ws>>

\* db.get_or_create_user, fix_user_balance for a negative balance, and the
\* balance check
bet_callback_user(c) ==
    LET u == mem.cb[c].user
        row == IF users[u].exists THEN users[u] ELSE NewUser
        user == IF RLess(row.balance, Zero)
                THEN [row EXCEPT !.balance = R(100)] ELSE row
    IN /\ mem.cb[c].pc = "get_or_create_user"
       /\ users' = [users EXCEPT ![u] = user]
       /\ IF RLess(user.balance, R(mem.cb[c].amount))
          THEN CallbackDone(c, "insufficient")
          ELSE mem' = [mem EXCEPT !.cb[c].pc = "transaction"]
       /\ UNCHANGED <<manager, hub, info, runs, ws>>

\* the transaction block: the UPDATE of the balance, then the entry in
\* current_round['bets'] and the pots; update_bet_placed follows
bet_callback_transaction(c) ==
    LET u == mem.cb[c].user
        amount == mem.cb[c].amount
    IN /\ mem.cb[c].pc = "transaction"
       /\ users' = [users EXCEPT
                      ![u].balance = RSub(@, R(amount)),
                      ![u].total_wagered = @ + amount]
       /\ mem' = [mem EXCEPT
                    !.bets[u] = [type |-> mem.cb[c].type, amount |-> amount,
                                 debit |-> Len(mem.ledger) + 1],
                    !.total_pot = @ + amount,
                    !.pump_pot = IF mem.cb[c].type = "PUMP"
                                 THEN @ + amount ELSE @,
                    !.dump_pot = IF mem.cb[c].type = "PUMP"
                                 THEN @ ELSE @ + amount,
                    !.ledger = Append(@, [user |-> u, amount |-> amount,
                                          accepted |-> mem.cb[c].accepted,
                                          round |-> mem.starts,
                                          status |-> mem.status]),
                    !.cb[c].pc = "done",
                    !.cb[c].res = "ok"]
       /\ ws' = broadcast(ws, "bet_placed")
       /\ UNCHANGED <<manager, hub, info, runs>>

\* ---------------------------------------- main_with_websocket: game_loop
\* the top of the while loop: current_round.update(...) and
\* update_round_started
game_loop_start ==
    /\ mem.pc = "top"
    /\ mem.round_number <= MaxRounds
    /\ mem' = [mem EXCEPT !.pc = "betting",
                          !.number = mem.round_number,
                          !.status = "betting",
                          !.expired = FALSE,
                          !.bets = [u \in Users |-> NoStake],
                          !.total_pot = 0,
                          !.pump_pot = 0,
                          !.dump_pot = 0,
                          !.starts = @ + 1]
    /\ ws' = broadcast(ws, "round_started")
    /\ UNCHANGED <<users, manager, hub, info, runs>>

\* the clock reaches the last second before betting_end_time:
\* get_time_remaining() is 0 from here on
betting_end_time ==
    /\ mem.pc = "betting"
    /\ ~mem.expired
    /\ mem' = [mem EXCEPT !.expired = TRUE]
    /\ UNCHANGED <<users, manager, hub, info, runs, ws>>

\* asyncio.sleep(20) returns: status 'revealing', update_betting_closed
game_loop_close ==
    /\ mem.pc = "betting"
    /\ mem.expired
    /\ mem' = [mem EXCEPT !.pc = "revealing", !.status = "revealing"]
    /\ ws' = broadcast(ws, "betting_closed")
    /\ UNCHANGED <<users, manager, hub, info, runs>>

\* update_round_result, status 'completed', round_number += 1
completed(m) ==
    [m EXCEPT !.pc = "top", !.status = "completed",
              !.round_number = @ + 1, !.todo = {}]

\* asyncio.sleep(15) returns: the result is drawn, winners and losers are
\* read from current_round['bets'] and the multiplier is computed; a
\* round without bets is completed at once
game_loop_result(result) ==
    /\ mem.pc = "revealing"
    /\ IF Bettors(mem.bets) = {}
       THEN /\ mem' = completed([mem EXCEPT !.result = result])
            /\ ws' = round_result(ws, mem.number, result)
       ELSE LET winners == {u \in Users : mem.bets[u].type = result}
                house_cut == RMul(R(mem.total_pot), HOUSE_EDGE)
                winners_pool == RSub(R(mem.total_pot), house_cut)
                winning_amount == IF result = "PUMP" THEN mem.pump_pot
                                  ELSE mem.dump_pot
            IN /\ mem' = [mem EXCEPT
                            !.pc = "paying",
                            !.result = result,
                            !.snap = mem.bets,
                            !.winners = winners,
                            !.multiplier =
                                IF winning_amount > 0
                                THEN RDiv(winners_pool, R(winning_amount))
                                ELSE Zero,
                            !.todo = Bettors(mem.bets)]
               /\ ws' = ws
    /\ UNCHANGED <<users, manager, hub, info, runs>>

\* one UPDATE of the settlement: a winner is paid amount * multiplier, a
\* loser gets a loss. With winners the loops run over the dicts read at
\* the result; without winners the loop runs over current_round['bets']
\* itself and raises when an entry was added meanwhile, which restarts
\* the round with the same number
game_loop_pay(u) ==
    LET stake == mem.snap[u]
        payout == RMul(R(stake.amount), mem.multiplier)
        grown == mem.winners = {} /\ Bettors(mem.bets) # Bettors(mem.snap)
        debit == IF mem.winners = {} THEN mem.bets[u].debit ELSE stake.debit
        rest == mem.todo \ {u}
    IN /\ mem.pc = "paying"
       /\ u \in mem.todo
       /\ users' = [users EXCEPT ![u] =
                      IF u \in mem.winners
                      THEN [@ EXCEPT !.balance = RAdd(@, payout),
                                     !.wins = @ + 1,
                                     !.games_played = @ + 1,
                                     !.total_won = RAdd(@, payout)]
                      ELSE [@ EXCEPT !.losses = @ + 1,
                                     !.games_played = @ + 1]]
       /\ mem' = [mem EXCEPT
                    !.settled = @ \cup {debit},
                    !.todo = IF grown THEN {} ELSE rest,
                    !.pc = IF grown THEN "top"
                           ELSE IF rest = {} THEN "notify" ELSE "paying"]
       /\ UNCHANGED <<manager, hub, info, runs, ws>>

\* notify_betting_users returns: update_round_result, status 'completed',
\* round_number += 1
game_loop_complete ==
    /\ mem.pc = "notify"
    /\ mem' = completed(mem)
    /\ ws' = round_result(ws, mem.number, mem.result)
    /\ UNCHANGED <<users, manager, hub, info, runs>>

\* the in-memory engine: game_loop and NumCalls bet_callback invocations
NextMem ==
    \/ \E c \in Calls, u \in Users, type \in Sides, amount \in Stakes :
          bet_callback(c, u, type, amount)
    \/ \E c \in Calls : bet_callback_user(c)
    \/ \E c \in Calls : bet_callback_transaction(c)
    \/ game_loop_start
    \/ betting_end_time
    \/ game_loop_close
    \/ \E result \in Sides : game_loop_result(result)
    \/ \E u \in Users : game_loop_pay(u)
    \/ game_loop_complete

SpecMem == InitSocket /\ [][NextMem]_vars

\* determine_result on its own: two calls get the same pots and the same
\* random draws, and each its own participants_count
Pots == {0, 1, 60, 1000}
Counts == {1, 2}

StatsOf(pump_pot, dump_pot, participants_count) ==
    [total_pot |-> pump_pot + dump_pot, pump_pot |-> pump_pot,
     dump_pot |-> dump_pot,
     participants_count |-> IF pump_pot + dump_pot = 0 THEN 0
                            ELSE participants_count]

InitResult ==
    /\ users = [u \in Users |-> NoUser]
    /\ rounds = <<>>
    /\ bets = <<>>
    /\ current_round = None
    /\ round_counter = 1
    /\ is_running = FALSE
    /\ loops = [l \in Loops |-> IdleLoop]
    /\ calls = [c \in Calls |-> IdleCall]
    /\ failures = 0
    /\ subscribers = <<>>
    /\ received = <<>>
    /\ published = 0
    /\ pub = [t \in Tasks |-> NoPub]
    /\ info = IdleInfo
    /\ ws = IdleSocket
    /\ mem = IdleEngine
    /\ \E pump_pot \in Pots, dump_pot \in Pots, draws \in Draws :
       \E counts \in [1..2 -> Counts] :
          runs = [k \in 1..2 |->
                    [pc |-> "call",
                     stats |-> StatsOf(pump_pot, dump_pot, counts[k]),
                     draws |-> draws, probability |-> 0,
                     result |-> "NONE"]]

NextResult == \E k \in 1..2 : determine_result_call(k)

SpecResult == InitResult /\ [][NextResult]_vars

\* the engine with stop and start requests: one place_bet call, no
\* subscriber, and no persistence call fails while the pool is open
InitStop ==
    /\ users = [u \in Users |-> NoUser]
    /\ rounds = <<>>
    /\ bets = <<>>
    /\ current_round = None
    /\ round_counter = 1
    /\ is_running = FALSE
    /\ loops = [l \in Loops |-> IdleLoop]
    /\ calls = [c \in Calls |->
                  IF c = 1 THEN IdleCall
                  ELSE [IdleCall EXCEPT !.pc = "done", !.res = "NoRound"]]
    /\ failures = MaxFailures
    /\ subscribers = <<>>
    /\ received = <<>>
    /\ published = 0
    /\ pub = [t \in Tasks |-> NoPub]
    /\ info = IdleInfo
    /\ runs = <<>>
    /\ ws = IdleSocket
    /\ mem = IdleEngine

NextStop ==
    \/ \E l \in Loops : start_game_loop(l)
    \/ \E l \in Loops : run_round_create(l)
    \/ \E l \in Loops : betting_deadline(l)
    \/ \E l \in Loops : run_round_close(l)
    \/ \E l \in Loops : run_round_stats(l)
    \/ \E l \in Loops : run_round_distribute(l)
    \/ \E l \in Loops : run_round_complete(l)
    \/ \E l \in Loops : start_game_loop_return(l)
    \/ stop_game_loop
    \/ \E c \in Calls : place_bet_call(c)
    \/ \E c \in Calls : can_place_bet_round(c)
    \/ \E c \in Calls : can_place_bet_user(c)
    \/ \E c \in Calls : can_place_bet_insert_user(c)
    \/ \E c \in Calls : can_place_bet_existing(c)
    \/ \E c \in Calls : place_bet_user(c)
    \/ \E c \in Calls : place_bet_transaction(c)
    \/ \E c \in Calls : place_bet_stats(c)

SpecStop == InitStop /\ [][NextStop]_vars

\* the engine with subscribers: callbacks subscribe at any time, the loop
\* and one place_bet call broadcast to them (the other calls have returned
\* before the loop was started), and no persistence call fails
InitHub ==
    /\ users = [u \in Users |-> NoUser]
    /\ rounds = <<>>
    /\ bets = <<>>
    /\ current_round = None
    /\ round_counter = 1
    /\ is_running = FALSE
    /\ loops = [l \in Loops |-> IdleLoop]
    /\ calls = [c \in Calls |->
                  IF c = 1 THEN IdleCall
                  ELSE [IdleCall EXCEPT !.pc = "done", !.res = "NoRound"]]
    /\ failures = MaxFailures
    /\ subscribers = <<>>
    /\ received = <<>>
    /\ published = 0
    /\ pub = [t \in Tasks |-> NoPub]
    /\ info = IdleInfo
    /\ runs = <<>>
    /\ ws = IdleSocket
    /\ mem = IdleEngine

NextHub ==
    \/ Next
    \/ \E callback \in Callbacks : subscribe(callback)
    \/ run_round_broadcast(LoopTask)
    \/ \E c \in Calls : place_bet_broadcast(c)

SpecHub == InitHub /\ [][NextHub]_vars

\* the loop and its subscribers alone: every place_bet call has returned
InitLoop ==
    /\ users = [u \in Users |-> NoUser]
    /\ rounds = <<>>
    /\ bets = <<>>
    /\ current_round = None
    /\ round_counter = 1
    /\ is_running = FALSE
    /\ loops = [l \in Loops |-> IdleLoop]
    /\ calls = [c \in Calls |->
                  [IdleCall EXCEPT !.pc = "done", !.res = "NoRound"]]
    /\ failures = MaxFailures
    /\ subscribers = <<>>
    /\ received = <<>>
    /\ published = 0
    /\ pub = [t \in Tasks |-> NoPub]
    /\ info = IdleInfo
    /\ runs = <<>>
    /\ ws = IdleSocket
    /\ mem = IdleEngine

\* a step of the loop task
LoopStep ==
    \/ start_game_loop(LoopTask)
    \/ run_round_create(LoopTask)
    \/ betting_deadline(LoopTask)
    \/ run_round_close(LoopTask)
    \/ run_round_stats(LoopTask)
    \/ run_round_distribute(LoopTask)
    \/ run_round_complete(LoopTask)
    \/ run_round_broadcast(LoopTask)

NextLoop ==
    \/ LoopStep
    \/ \E callback \in Callbacks : subscribe(callback)

\* the event loop runs the loop task whenever what it awaits is over: a
\* database call, a sleep, or a callback that returns or raises
FairLoop == InitLoop /\ [][NextLoop]_vars /\ WF_vars(LoopStep)

\* the loop and its subscribers alone, with persistence calls that fail
InitRetry ==
    /\ users = [u \in Users |-> NoUser]
    /\ rounds = <<>>
    /\ bets = <<>>
    /\ current_round = None
    /\ round_counter = 1
    /\ is_running = FALSE
    /\ loops = [l \in Loops |-> IdleLoop]
    /\ calls = [c \in Calls |->
                  [IdleCall EXCEPT !.pc = "done", !.res = "NoRound"]]
    /\ failures = 0
    /\ subscribers = <<>>
    /\ received = <<>>
    /\ published = 0
    /\ pub = [t \in Tasks |-> NoPub]
    /\ info = IdleInfo
    /\ runs = <<>>
    /\ ws = IdleSocket
    /\ mem = IdleEngine

FairRetry == InitRetry /\ [][NextLoop]_vars /\ WF_vars(LoopStep)

\* the loop tasks with stop and start requests and subscribers: a task
\* that has been started runs whenever what it awaits is over
TaskStep(l) ==
    \/ run_round_create(l)
    \/ betting_deadline(l)
    \/ run_round_close(l)
    \/ run_round_stats(l)
    \/ run_round_distribute(l)
    \/ run_round_complete(l)
    \/ run_round_broadcast(l)
    \/ start_game_loop_return(l)

NextTasks ==
    \/ \E l \in Loops : start_game_loop(l)
    \/ \E l \in Loops : TaskStep(l)
    \/ stop_game_loop
    \/ \E callback \in Callbacks : subscribe(callback)

FairStop ==
    InitLoop /\ [][NextTasks]_vars /\ \A l \in Loops : WF_vars(TaskStep(l))

\* =================================================================== claims
RECURSIVE SumAmounts(_, _, _)
\* the sum of the amounts of the first n bets rows that belong to round r
SumAmounts(bs, n, r) ==
    IF n = 0 THEN 0
    ELSE SumAmounts(bs, n - 1, r)
         + (IF bs[n].round_id = r THEN bs[n].amount ELSE 0)

RECURSIVE SumPayouts(_, _, _)
\* the sum of the payouts of the first n bets rows that belong to round r
SumPayouts(bs, n, r) ==
    IF n = 0 THEN Zero
    ELSE RAdd(SumPayouts(bs, n - 1, r),
              IF bs[n].round_id = r THEN bs[n].payout ELSE Zero)

StatusOf(rs, r) == IF r <= Len(rs) THEN rs[r].status ELSE "waiting"

\* C1: for every round, total_pot = pump_pot + dump_pot = the sum of the
\* amounts of the round's bet rows, in every reachable state.
C1_PotsEqualBets ==
    \A r \in RoundIds :
        /\ rounds[r].total_pot = rounds[r].pump_pot + rounds[r].dump_pot
        /\ rounds[r].total_pot = SumAmounts(bets, Len(bets), r)

\* two calls have committed bets of different users and sides in one round
C1_Witness ==
    \E r \in RoundIds : \E a, b \in BetIds :
        /\ bets[a].round_id = r /\ bets[b].round_id = r
        /\ bets[a].user_id # bets[b].user_id
        /\ bets[a].bet_type = "PUMP" /\ bets[b].bet_type = "DUMP"

\* C2: at most one bet row per user and round, and a place_bet call that
\* reaches its commit when its user already has a bet in that round is
\* rejected as already-bet (the call returns that rejection).
C2_OneBetOtherAlreadyBet ==
    [][/\ \A u \in Users : \A r \in 1..Len(rounds') :
            Cardinality({b \in 1..Len(bets') :
                bets'[b].user_id = u /\ bets'[b].round_id = r}) <= 1
       /\ \A c \in Calls :
            (/\ calls[c].pc = "transaction"
             /\ get_user_round_bet(bets, calls[c].user, calls[c].rid)
             /\ calls'[c].pc = "done"
             /\ failures' = failures)
            => calls'[c].res = "AlreadyBet"]_vars

\* C3: every user's balance is >= 0 in every reachable state.
C3_BalanceNonNegative ==
    \A u \in Users : users[u].exists => RLeq(Zero, users[u].balance)

\* C4: at most one round has status betting or revealing.
C4_OneOpenRound ==
    Cardinality({r \in RoundIds :
                    rounds[r].status \in {"betting", "revealing"}}) <= 1

\* C5: a round's status changes only waiting -> betting -> revealing ->
\* completed, one phase at a time; a round row is never removed and a
\* completed round never changes status again.
C5_StatusForward ==
    [][/\ Len(rounds') >= Len(rounds)
       /\ \A r \in 1..Len(rounds') :
            \/ StatusOf(rounds', r) = StatusOf(rounds, r)
            \/ <<StatusOf(rounds, r), StatusOf(rounds', r)>> \in
                 {<<"waiting", "betting">>, <<"betting", "revealing">>,
                  <<"revealing", "completed">>}]_vars

\* a round has gone through all its phases and a later round is open
C5_Witness ==
    \E r, q \in RoundIds :
        r < q /\ rounds[r].status = "completed"
              /\ rounds[q].status = "revealing"

\* C6: a bet row is inserted only into a round whose status is betting and
\* whose betting deadline has not passed at the instant of the commit.
C6_CommitOnlyWhileBetting ==
    [][Len(bets') > Len(bets) =>
         LET r == bets'[Len(bets')].round_id
         IN rounds[r].status = "betting" /\ ~rounds[r].expired]_vars

Rejections == {"NoRound", "Closed", "Min", "Max", "Balance", "AlreadyBet"}

BetApplied(c) ==
    LET u == calls[c].user
        r == calls[c].rid
        a == calls[c].amount
        pump == IF calls[c].side = "PUMP" THEN a ELSE 0
    IN /\ bets' = Append(bets, [user_id |-> u, round_id |-> r,
                                bet_type |-> calls[c].side, amount |-> a,
                                is_winner |-> FALSE, payout |-> Zero])
       /\ users' = [users EXCEPT
             ![u] = [users[u] EXCEPT
                       !.balance = RSub(users[u].balance, R(a)),
                       !.total_wagered = users[u].total_wagered + a]]
       /\ rounds' = [rounds EXCEPT
             ![r] = [rounds[r] EXCEPT
                       !.total_pot = rounds[r].total_pot + a,
                       !.pump_pot = rounds[r].pump_pot + pump,
                       !.dump_pot = rounds[r].dump_pot + (a - pump),
                       !.participants_count =
                            rounds[r].participants_count + 1]]

\* C9: the commit step of place_bet either applies the whole bet (balance
\* - amount, total_wagered + amount, one bet row, total_pot and the chosen
\* side's pot + amount, participants_count + 1, nothing else) or, when it
\* fails, applies nothing; and bet rows appear in no other way.
C9_BetAllOrNothing ==
    [][/\ \A c \in Calls :
            (calls[c].pc = "transaction" /\ calls'[c] # calls[c])
            => \/ BetApplied(c)
               \/ /\ calls'[c].pc = "done"
                  /\ users' = users /\ bets' = bets /\ rounds' = rounds
       /\ Len(bets') # Len(bets)
            => \E c \in Calls : calls[c].pc = "transaction" /\ BetApplied(c)
      ]_vars

\* one call has committed its bet, another failed inside the transaction
C9_Witness ==
    \E c, d \in Calls :
        /\ calls[c].res = "ok"
        /\ calls[d].res = "PersistenceError"
        /\ Len(bets) = 1

\* C10: a bet's payout is nonzero only if its side is its round's result,
\* and the payouts of a round sum to at most the round's total_pot.
C10_PayoutOnlyToWinners ==
    /\ \A b \in BetIds :
         bets[b].payout # Zero
         => bets[b].bet_type = rounds[bets[b].round_id].result
    /\ \A r \in RoundIds :
         RLeq(SumPayouts(bets, Len(bets), r), R(rounds[r].total_pot))

\* the bets rows of round r on the side bet_type
BetsOn(bs, r, bet_type) ==
    {b \in 1..Len(bs) : bs[b].round_id = r /\ bs[b].bet_type = bet_type}

\* C11: for a settled round with result R and a nonzero winning pot,
\* house_profit = total_pot * house_edge, and every bet on R carries
\* payout = amount * (total_pot - house_profit) / winning_pot; the
\* winner_count the loop holds for the round it has just completed is the
\* number of bets on R.
C11_SettledPayouts ==
    \A r \in RoundIds :
        (rounds[r].status = "completed"
         /\ WinningPot(rounds, r, rounds[r].result) # 0)
        => LET total_pot == R(rounds[r].total_pot)
               house_profit == RMul(total_pot, HOUSE_EDGE)
               winners_pool == RSub(total_pot, house_profit)
               multiplier ==
                   RDiv(winners_pool,
                        R(WinningPot(rounds, r, rounds[r].result)))
           IN /\ rounds[r].house_profit = house_profit
              /\ \A b \in BetsOn(bets, r, rounds[r].result) :
                    /\ bets[b].is_winner
                    /\ bets[b].payout = RMul(R(bets[b].amount), multiplier)
              /\ (loop.round_id = r /\ loop.pc = "top")
                 => loop.winner_count =
                       Cardinality(BetsOn(bets, r, rounds[r].result))

\* C12: when a round with bets is completed and no bet is on the winning
\* side (the pot being the one counted when betting closed), the settlement
\* has made no payout and changed no balance, and the house_profit recorded
\* for the round is the full total_pot.
C12_NoWinnersHouseKeepsPot ==
    [][\A r \in RoundIds :
          (rounds[r].status # "completed"
           /\ rounds'[r].status = "completed"
           /\ rounds[r].total_pot > 0
           /\ rounds[r].total_pot = loop.stats.total_pot
           /\ WinningPot(rounds, r, rounds'[r].result) = 0)
          => /\ \A b \in BetIds :
                  bets'[b].round_id = r => bets'[b].payout = Zero
             /\ \A u \in Users :
                  users[u].exists => users'[u].balance = users[u].balance
             /\ rounds'[r].house_profit = R(rounds[r].total_pot)]_vars

\* C13: running distribute_winnings and then complete_round again on a
\* completed round that has paid winners, with the result and house profit
\* it was settled with, changes no bet row, no user row and no round row.
C13_SettleAgainIsNoOp ==
    \A r \in RoundIds :
        (rounds[r].status = "completed"
         /\ \E b \in BetIds : bets[b].round_id = r /\ bets[b].is_winner)
        => LET result == rounds[r].result
               bs == distribute_winnings_bets(bets, rounds, r, result)
               paid == distribute_winnings_users(users, bets, rounds, r,
                                                 result)
               rs == complete_round_rounds(rounds, r, result,
                                           rounds[r].house_profit)
               us == complete_round_users(paid, bs, r)
           IN bs = bets /\ us = users /\ rs = rounds

\* C14: in every reachable state the bets of round r carry their winner
\* marks and payouts (the winners have been credited) if and only if round
\* r is completed with its result written.
C14_SettlementAllOrNothing ==
    \A r \in RoundIds :
        (\E b \in BetIds : bets[b].round_id = r /\ bets[b].is_winner)
        => /\ rounds[r].status = "completed"
           /\ \A b \in BetIds :
                (bets[b].round_id = r /\ bets[b].is_winner)
                => bets[b].bet_type = rounds[r].result

\* C15: the persisted rounds carry the round numbers 1, 2, 3, ... in the
\* order of their creation, without a gap and without a duplicate.
C15_RoundNumbersGapless ==
    \A r \in RoundIds : rounds[r].round_number = r

\* the events a callback has been called with
EventsOf(log) == {log[k] : k \in 1..Len(log)}

\* C16: a callback that raises is treated like one that returns: the task
\* that broadcasts calls the next callback of the list with the same event
\* and goes on unchanged, and when the last callback is over every current
\* subscriber has been called with the event and the task continues as
\* after a clean broadcast (the loop to its next phase, the call to its
\* success return).
C16_RaiseContained ==
    [][\A t \in Tasks :
          (pub[t].idx # 0 /\ pub'[t] # pub[t])
          => LET i == pub[t].idx
                 ev == <<pub[t].n, pub[t].type>>
             IN IF i < Len(subscribers)
                THEN /\ pub'[t] = [pub[t] EXCEPT !.idx = i + 1]
                     /\ received'[i + 1] = Append(received[i + 1], ev)
                     /\ t = LoopTask => loop' = loop
                     /\ t \in Calls => calls'[t] = calls[t]
                ELSE /\ pub'[t] = NoPub
                     /\ \A j \in 1..Len(subscribers) :
                          ev \in EventsOf(received'[j])
                     /\ failures' = failures
                     /\ t = LoopTask =>
                          loop'.pc = CASE ev[2] = "round_started" -> "betting"
                                       [] ev[2] = "betting_closed" -> "reveal"
                                       [] OTHER -> "top"
                     /\ t \in Calls => /\ calls'[t].pc = "done"
                                       /\ calls'[t].res = "ok"]_vars

\* behind a callback that raises every time, a second subscriber has been
\* called with all the events of a round, bet_placed included; the call
\* returned success and the loop finished the round
C16_Witness ==
    /\ Len(subscribers) = 2
    /\ subscribers[1] = "raises"
    /\ \A t \in Tasks : pub[t] = NoPub
    /\ received[2] = received[1]
    /\ {"round_started", "bet_placed", "betting_closed", "round_completed"}
         \subseteq {ev[2] : ev \in EventsOf(received[2])}
    /\ \E c \in Calls : calls[c].pc = "done" /\ calls[c].res = "ok"
    /\ loop.pc = "top"

\* the tasks that await the callback at position i
Awaiting(i) == {t \in Tasks : pub[t].idx = i}

\* a call of the callback at position i has raised and the raise has been
\* handled: it was called more often than it is being awaited
Failed(i) ==
    /\ subscribers[i] = "raises"
    /\ Len(received[i]) > Cardinality(Awaiting(i))

\* C17: once a delivery to a subscriber has failed, the subscriber is out
\* of the set: it is never called with an event again.
C17_FailedSubscriberDropped ==
    [][\A i \in 1..Len(subscribers) :
          Failed(i) => received'[i] = received[i]]_vars

\* C18: whatever the subscribers do, a callback that never returns
\* included, every round that is opened goes on to completed.
C18_RoundsCompleteDespiteSubscribers ==
    \A r \in 1..MaxRounds :
        (Len(rounds) >= r)
        ~> (Len(rounds) >= r /\ rounds[r].status = "completed")

\* C19: every subscriber is called with the events in the order of the
\* broadcast_update calls that published them.
C19_ReceivedInPublishOrder ==
    \A i \in 1..Len(received) :
        \A k \in 1..(Len(received[i]) - 1) :
            received[i][k][1] < received[i][k + 1][1]

\* C20: get_current_round_info returns absent only when no round is in
\* betting or revealing; a result that is present carries the number and
\* the status of a round together with that same round's pots and
\* participant count, time_remaining >= 0, and time_remaining = 0 when the
\* status is not betting.
C20_InfoOfOpenRound ==
    [][(info.pc # "done" /\ info'.pc = "done")
       => IF info'.res.absent
          THEN info.pc = "idle" => get_current_round(rounds) = None
          ELSE /\ ~info'.res.round_stats.empty
               /\ info'.res.round_stats.stats_of = info'.res.round_id
               /\ info'.res.time_remaining >= 0
               /\ info'.res.status # "betting"
                  => info'.res.time_remaining = 0]_vars

\* C21: however get_or_create_user calls for one key interleave, every call
\* returns the user: none ends with the error of a second INSERT for the
\* key.
C21_GetOrCreateNeverFails ==
    \A c \in Calls : calls[c].res # "UserUniqueViolation"

\* C22: for pots that are not both zero, the base probability of PUMP is
\* 0.52 when the other side's pot times (1 - house_edge) is smaller for
\* PUMP than for DUMP, 0.48 when it is smaller for DUMP, 0.50 when equal.
C22_BaseProbability ==
    \A k \in DOMAIN runs :
        (runs[k].pc = "done" /\ runs[k].stats.total_pot > 0)
        => LET pump == 19 * runs[k].stats.dump_pot
               dump == 19 * runs[k].stats.pump_pot
               base == IF pump < dump THEN 520
                       ELSE IF dump < pump THEN 480 ELSE 500
           IN /\ base_probability(runs[k].stats) = base
              /\ runs[k].draws.jitter = 0 => runs[k].probability = base

\* determine_result has run for pots that favour PUMP, for pots that
\* favour DUMP and for equal pots
C22_Witness ==
    /\ DOMAIN runs = 1..2
    /\ runs[1].pc = "done"
    /\ runs[1].stats.pump_pot = 60 /\ runs[1].stats.dump_pot = 1
    /\ runs[1].draws.jitter = 0
    /\ runs[1].probability = 520

\* C23: the probability of PUMP used for sampling is the base probability
\* plus the jitter, clamped to [0.40, 0.60]; a sample below 0.40 gives
\* PUMP and one from 0.60 gives DUMP whatever the pots and the jitter are.
C23_ProbabilityClamped ==
    \A k \in DOMAIN runs :
        (runs[k].pc = "done" /\ runs[k].stats.total_pot > 0)
        => LET sum == base_probability(runs[k].stats) + runs[k].draws.jitter
               clamped == IF sum < 400 THEN 400
                          ELSE IF sum > 600 THEN 600 ELSE sum
           IN /\ runs[k].probability = clamped
              /\ 400 <= runs[k].probability /\ runs[k].probability <= 600
              /\ runs[k].draws.sample < 400 => runs[k].result = "PUMP"
              /\ runs[k].draws.sample >= 600 => runs[k].result = "DUMP"
              /\ runs[k].result = "PUMP"
                 <=> runs[k].draws.sample < runs[k].probability

\* with the largest jitter on pots that favour PUMP, a sample just below
\* 0.60 gave DUMP
C23_Witness ==
    /\ DOMAIN runs = 1..2
    /\ runs[2].pc = "done"
    /\ runs[2].stats.pump_pot = 1000 /\ runs[2].stats.dump_pot = 60
    /\ runs[2].draws.jitter = 50
    /\ runs[2].probability = 570
    /\ runs[2].draws.sample = 599
    /\ runs[2].result = "DUMP"

C25_FailedTransitionRetried ==
    [][(/\ failures' > failures
        /\ loop' # loop
        /\ loop.pc \in {"betting", "stats", "reveal", "complete"})
       => (loop'.pc = loop.pc /\ loop'.round_id = loop.round_id)]_vars

\* C26: from the betting_closed event on, the round's pots are the ones
\* the event carried: they are what settlement works with.
C26_PotsFinalAfterClose ==
    loop.pc \in {"betting_closed", "reveal", "complete"}
    => /\ rounds[loop.round_id].total_pot = loop.stats.total_pot
       /\ rounds[loop.round_id].pump_pot = loop.stats.pump_pot
       /\ rounds[loop.round_id].dump_pot = loop.stats.dump_pot

\* C27: update_round_status(round, 'revealing') on a round that is already
\* past betting leaves the rounds table as it is; a completed round stays
\* completed.
C27_CloseAgainIsNoOp ==
    \A r \in RoundIds :
        rounds[r].status \in {"revealing", "completed"}
        => update_round_status(rounds, r, "revealing") = rounds

\* C28: whatever start and stop requests were made, at most one loop task
\* is running rounds: no two tasks are inside run_round at the same time.
C28_OneLoopRunsRounds ==
    Cardinality({l \in Loops :
                   loops[l].pc \notin {"idle", "returned", "top", "exited"}})
      <= 1

\* C29: every event a subscriber receives carries one of the tags
\* round_started, bet_placed, betting_closed, round_result, timer_update.
C29_EventTags ==
    \A i \in DOMAIN received : \A k \in DOMAIN received[i] :
        received[i][k][2] \in {"round_started", "bet_placed",
                               "betting_closed", "round_result",
                               "timer_update"}

\* C30: settlement is not cut between its two writes, stop request or not:
\* a loop task that has run distribute_winnings for its round leaves that
\* point only by completing the round.
C30_StopNeverCutsSettlement ==
    [][\A l \in Loops :
         (loops[l].pc = "complete" /\ loops'[l].pc # "complete")
         => rounds'[loops[l].round_id].status = "completed"]_vars

\* C31: an exception inside run_round leaves the loop task at the while
\* test, and from there the next round is attempted: round_counter, taken
\* at the start of every attempt, goes up.
C31_LoopSurvivesExceptions ==
    /\ [][failures' > failures => loop'.pc = "top"]_vars
    /\ \A n \in 1..MaxRounds :
         (failures > 0 /\ loop.pc = "top" /\ round_counter = n)
         ~> (round_counter > n)

\* a persistence call of round 1 failed and the loop went on to create
\* round 2
C31_Witness ==
    /\ failures > 0
    /\ Len(rounds) = 2
    /\ rounds[1].status # "completed"
    /\ loop.round_id = 2

\* C32: the step that completes round r adds 1 to games_played of every
\* user with a bet in r, 1 to wins when the bet's side is the result and 1
\* to losses otherwise, and the bet's payout to total_won; a user without a
\* bet in r keeps the row.
C32_StatsOnCompletion ==
    [][\A r \in RoundIds :
          (rounds[r].status # "completed" /\ rounds'[r].status = "completed")
          => \A u \in Users :
               users[u].exists
               => LET mine == {b \in BetIds : /\ bets[b].user_id = u
                                              /\ bets[b].round_id = r}
                      won(b) == bets[b].bet_type = rounds'[r].result
                  IN IF mine = {} THEN users'[u] = users[u]
                     ELSE \A b \in mine :
                            /\ users'[u].games_played
                                 = users[u].games_played + 1
                            /\ users'[u].wins
                                 = users[u].wins + (IF won(b) THEN 1 ELSE 0)
                            /\ users'[u].losses
                                 = users[u].losses + (IF won(b) THEN 0 ELSE 1)
                            /\ users'[u].total_won
                                 = RAdd(users[u].total_won, bets[b].payout)
                            /\ users'[u].balance = users[u].balance]_vars

\* C35: when a round is completed (the pot being the one counted when
\* betting closed), the house_profit recorded for it plus the payouts of
\* its bets is the round's total_pot.
C35_SettlementConservesMoney ==
    [][\A r \in RoundIds :
          (/\ rounds[r].status # "completed"
           /\ rounds'[r].status = "completed"
           /\ rounds[r].total_pot = loop.stats.total_pot)
          => RAdd(rounds'[r].house_profit, SumPayouts(bets', Len(bets'), r))
               = R(rounds'[r].total_pot)]_vars

\* C33: a step of a place_bet call (can_place_bet included) or of a
\* get_current_round_info call creates no round and leaves status, result
\* and house_profit of every round as they are.
C33_OnlyLoopWritesStatus ==
    [][(calls' # calls \/ info' # info)
       => /\ Len(rounds') = Len(rounds)
          /\ \A r \in RoundIds :
               /\ rounds'[r].status = rounds[r].status
               /\ rounds'[r].result = rounds[r].result
               /\ rounds'[r].house_profit = rounds[r].house_profit]_vars

\* a bet was committed in a round that had left betting, the call returned
\* success and a get_current_round_info call has returned as well
C33_Witness ==
    /\ calls[1].pc = "done" /\ calls[1].res = "ok"
    /\ info.pc = "done"
    /\ \E b \in BetIds : rounds[bets[b].round_id].status = "revealing"

\* C36: while round 1 is the only round, its bets are the only bets: when
\* a place_bet call hands its bet_placed event to the first subscriber,
\* that subscriber has received no betting_closed event yet, and the
\* round_stats of the event are read from round 1.
C36_BetPlacedBeforeClosed ==
    [][\A c \in Calls :
          (/\ calls[c].pc = "get_round_stats"
           /\ published' > published
           /\ subscribers # <<>>
           /\ Len(rounds) = 1)
          => /\ calls[c].rid = 1
             /\ \A k \in DOMAIN received[1] :
                  received[1][k][2] # "betting_closed"]_vars

\* C39: while the engine is stopped no round is opened, and a loop task
\* that is still running when the engine is stopped ends, unless the
\* engine is started again.
C39_LoopEndsAfterStop ==
    /\ [][(~is_running /\ ~is_running') => Len(rounds') = Len(rounds)]_vars
    /\ \A l \in Loops :
         (~is_running /\ loops[l].pc \notin {"idle", "returned", "exited"})
         ~> (loops[l].pc = "exited" \/ is_running)

\* C34: a connection that is registered and open has been sent every event
\* broadcast since it registered, or its send_to_client task is still to
\* run; no connection is sent an event broadcast before it registered or
\* after it was unregistered.
C34_RegisteredClientsGetEvents ==
    \A k \in Clients :
        LET h == ws.handlers[k]
            got == {ws.inbox[k][i][1] : i \in DOMAIN ws.inbox[k]}
        IN /\ h.pc = "open"
              => \A n \in (h.joined + 1)..ws.count :
                    \/ n \in got
                    \/ \E b \in ws.casts : b.n = n /\ k \in b.pending
           /\ \A n \in got \ {0} :
                 /\ h.joined < n
                 /\ h.pc = "done" => n <= h.left

\* connection 1 was sent both events, the second one broadcast after
\* connection 2 had been unregistered, which was sent the first only
C34_Witness ==
    /\ ws.handlers[1].pc = "open"
    /\ ws.handlers[2].pc = "done"
    /\ ws.handlers[2].left = 1
    /\ ws.count = 2
    /\ ws.casts = {}
    /\ Len(ws.inbox[1]) = 3
    /\ Len(ws.inbox[2]) = 2

\* C40: recentResults holds the last results passed to update_round_result,
\* newest first, and never more than 10 of them.
C40_RecentResults ==
    LET all == ws.results
        kept == ws.recentResults
    IN /\ Len(kept) <= 10
       /\ Len(kept) = IF Len(all) < 10 THEN Len(all) ELSE 10
       /\ \A i \in 1..Len(kept) : kept[i] = all[Len(all) + 1 - i]

\* twelve results were passed: the first two have been dropped
C40_Witness ==
    /\ Len(ws.results) = 12
    /\ Len(ws.recentResults) = 10
    /\ ws.recentResults[10].round = 3
    /\ ws.recentResults[1].round = 12

\* C37 (as claimed): no user is debited twice under one round start, and
\* in every state total_pot = pump_pot + dump_pot = the sum of the amounts
\* in current_round['bets'].
C37_DebitedOncePotsAgree ==
    /\ \A i, j \in DOMAIN mem.ledger :
          (i # j /\ mem.ledger[i].user = mem.ledger[j].user)
          => mem.ledger[i].round # mem.ledger[j].round
    /\ mem.total_pot = mem.pump_pot + mem.dump_pot
    /\ mem.total_pot = SumStakes(mem.bets, Bettors(mem.bets))

\* C38 (as claimed): every debit is made while the status is betting and
\* under the round start its callback was accepted in, and is either
\* settled or still the user's entry in current_round['bets'].
C38_DebitsRecordedAndSettled ==
    \A i \in DOMAIN mem.ledger :
        LET d == mem.ledger[i]
        IN /\ d.status = "betting"
           /\ d.round = d.accepted
           /\ \/ i \in mem.settled
              \/ mem.bets[d.user].debit = i

====
